---- MODULE Spec2Model ----
(***************************************************************************)
(* Model of src/libcore/option.rs: the Option type, its combinators, the   *)
(* one-element iterators (Item / Iter / IterMut / IntoIter) and the        *)
(* FromIterator implementation that collects Option<A> into Option<V>.     *)
(*                                                                         *)
(* The payload type T is bounded to 0..MaxVal.  The caller owns one option *)
(* variable x.  A method that takes `self` by value moves x (x is Moved    *)
(* until the caller assigns it again); a method that takes `&mut self`     *)
(* returns the new content of x next to its result.  A method that invokes *)
(* a caller-supplied closure returns the list of closures it invoked       *)
(* (`calls`) next to its result.                                           *)
(***************************************************************************)
EXTENDS Integers, Sequences, FiniteSets, TLC

\* ---------------------------------------------------------------- bounds
MaxVal == 2
MaxLen == 3
MaxCalls == 3

Vals == 0..MaxVal
Msgs == {"the world is ending", "no value"}
\* the fixed message of unwrap (the source quotes the two names in backquotes)
UnwrapMsg == "called Option::unwrap() on a None value"
Unit == "()"

\* ------------------------------------------------------- enum Option<T>
None == [tag |-> "None"]
Some(v) == [tag |-> "Some", val |-> v]
OptionOf(S) == {None} \cup {Some(v) : v \in S}

\* mutant: the enum declares Some before None
discriminant_some_first(self) ==
    CASE self.tag = "None" -> 1
      [] self.tag = "Some" -> 0

\* the position of a variant in the enum's declaration: None, then Some(T)
discriminant(self) ==
    CASE self.tag = "None" -> 0
      [] self.tag = "Some" -> 1

\* Ord::cmp on the payload type (uint) and on discriminants
uint_cmp(a, b) ==
    IF a < b THEN "Less" ELSE IF a = b THEN "Equal" ELSE "Greater"

\* #[deriving(PartialEq, Eq)]: same variant and equal fields
derived_eq(self, other) ==
    /\ discriminant(self) = discriminant(other)
    /\ self.tag = "Some" => self.val = other.val

\* #[deriving(PartialOrd, Ord)]: by variant in declaration order, then by
\* the fields of the common variant
derived_cmp(self, other) ==
    IF discriminant(self) # discriminant(other)
    THEN uint_cmp(discriminant(self), discriminant(other))
    ELSE IF self.tag = "Some" THEN uint_cmp(self.val, other.val)
    ELSE "Equal"

\* Result<T, E>
Ok(v) == [tag |-> "Ok", val |-> v]
Err(e) == [tag |-> "Err", err |-> e]

\* outcome of a call that may panic
Return(v) == [kind |-> "return", val |-> v]
Panic(m) == [kind |-> "panic", msg |-> m]

\* closures: F: FnOnce(T) -> U is a function on Vals, F: FnOnce() -> U a
\* function on {Unit}
Fns(U) == [Vals -> U]
Suppliers(U) == [{Unit} -> U]

\* ------------------------------------------------ references into x
\* &'r T / &'r mut T pointing at the payload of the caller's option
Ref(m) == [cell |-> "x", mutable |-> m]

as_ref(self) ==
    CASE self.tag = "Some" -> Some(Ref(FALSE))
      [] self.tag = "None" -> None

\* mutant: as_mut borrows a copy of the payload, not the payload in place
as_mut_of_copy(self) ==
    CASE self.tag = "Some" -> Some([cell |-> "copy", mutable |-> TRUE])
      [] self.tag = "None" -> None

as_mut(self) ==
    CASE self.tag = "Some" -> Some(Ref(TRUE))
      [] self.tag = "None" -> None

\* a slice is the sequence of references to its elements;
\* slice::mut_ref_slice(x) is the one-element slice over x, &mut [] is empty
as_mut_slice(self) ==
    CASE self.tag = "Some" -> <<Ref(TRUE)>>
      [] self.tag = "None" -> <<>>

\* AsSlice::as_slice: slice::ref_slice(x), or &[]
as_slice(self) ==
    CASE self.tag = "Some" -> <<Ref(FALSE)>>
      [] self.tag = "None" -> <<>>

\* ------------------------------------------- getting to contained values

\* mutant: expect panics with the fixed message instead of the caller's
expect_fixed_message(self, msg) ==
    CASE self.tag = "Some" -> Return(self.val)
      [] self.tag = "None" -> Panic(UnwrapMsg)

expect(self, msg) ==
    CASE self.tag = "Some" -> Return(self.val)
      [] self.tag = "None" -> Panic(msg)

unwrap(self) ==
    CASE self.tag = "Some" -> Return(self.val)
      [] self.tag = "None" -> Panic(UnwrapMsg)

unwrap_or_else(self, f) ==
    CASE self.tag = "Some" -> [ret |-> self.val, calls |-> <<>>]
      [] self.tag = "None" -> [ret |-> f[Unit], calls |-> <<"f">>]

\* ------------------------------------------ transforming contained values

\* mutant: map hands the payload on without applying f
map_without_f(self, f) ==
    CASE self.tag = "Some" -> [ret |-> Some(self.val), calls |-> <<>>]
      [] self.tag = "None" -> [ret |-> None, calls |-> <<>>]

map(self, f) ==
    CASE self.tag = "Some" -> [ret |-> Some(f[self.val]), calls |-> <<"f">>]
      [] self.tag = "None" -> [ret |-> None, calls |-> <<>>]


\* mutant: map_or_else computes the default eagerly, on both paths
map_or_else_eager(self, def, f) ==
    CASE self.tag = "Some" -> [ret |-> f[self.val], calls |-> <<"def", "f">>]
      [] self.tag = "None" -> [ret |-> def[Unit], calls |-> <<"def">>]

map_or_else(self, def, f) ==
    CASE self.tag = "Some" -> [ret |-> f[self.val], calls |-> <<"f">>]
      [] self.tag = "None" -> [ret |-> def[Unit], calls |-> <<"def">>]

ok_or_else(self, err) ==
    CASE self.tag = "Some" -> [ret |-> Ok(self.val), calls |-> <<>>]
      [] self.tag = "None" -> [ret |-> Err(err[Unit]), calls |-> <<"err">>]

\* ------------------------------------------------- boolean operations

\* mutant: and returns self, as or does, when self is Some
and_returns_self(self, optb) ==
    CASE self.tag = "Some" -> self
      [] self.tag = "None" -> None

and(self, optb) ==
    CASE self.tag = "Some" -> optb
      [] self.tag = "None" -> None


\* mutant: and_then wraps the payload again instead of returning f's option
and_then_keeps_self(self, f) ==
    CASE self.tag = "Some" -> [ret |-> self, calls |-> <<"f">>]
      [] self.tag = "None" -> [ret |-> None, calls |-> <<>>]

and_then(self, f) ==
    CASE self.tag = "Some" -> [ret |-> f[self.val], calls |-> <<"f">>]
      [] self.tag = "None" -> [ret |-> None, calls |-> <<>>]

or(self, optb) ==
    CASE self.tag = "Some" -> self
      [] self.tag = "None" -> optb

or_else(self, f) ==
    CASE self.tag = "Some" -> [ret |-> self, calls |-> <<>>]
      [] self.tag = "None" -> [ret |-> f[Unit], calls |-> <<"f">>]

\* ------------------------------------------------------------------ misc
\* mem::replace(dest, src): stores src in dest, returns the old dest
mem_replace(dest, src) == [self |-> src, ret |-> dest]


\* mutant: take copies the value out and leaves it in place
take_leaves_value(self) == [self |-> self, ret |-> self]

take(self) == mem_replace(self, None)

\* ------------------------------------------------- the Option iterators
\* struct Item<A> { opt: Option<A> }
Item(o) == [opt |-> o]

Item_next(self) ==
    LET r == take(self.opt) IN [self |-> [self EXCEPT !.opt = r.self], ret |-> r.ret]


\* mutant: next_back hands the item out without removing it from the cell
Item_next_back_keeps(self) == [self |-> self, ret |-> self.opt]

Item_next_back(self) ==
    LET r == take(self.opt) IN [self |-> [self EXCEPT !.opt = r.self], ret |-> r.ret]

\* mutant: size_hint gives only the upper bound, as the trait's default does
Item_size_hint_upper_only(self) ==
    CASE self.opt.tag = "Some" -> <<0, Some(1)>>
      [] self.opt.tag = "None" -> <<0, Some(0)>>

\* (uint, Option<uint>): the lower and the upper bound
Item_size_hint(self) ==
    CASE self.opt.tag = "Some" -> <<1, Some(1)>>
      [] self.opt.tag = "None" -> <<0, Some(0)>>

\* Option::iter(&self): the option is only read
iter(self) == [kind |-> "Iter", inner |-> Item(as_ref(self))]


\* mutant: iter_mut moves the payload out of the option into the iterator
iter_mut_taking(self) ==
    [self |-> None, ret |-> [kind |-> "IterMut", inner |-> Item(as_mut(self))]]

\* Option::iter_mut(&mut self): the option is borrowed mutably, not changed
iter_mut(self) == [self |-> self, ret |-> [kind |-> "IterMut", inner |-> Item(as_mut(self))]]

\* Option::into_iter(self): the option moves into the iterator
into_iter(self) == [kind |-> "IntoIter", inner |-> Item(self)]

Iter_next(self) ==
    LET r == Item_next(self.inner) IN [self |-> [self EXCEPT !.inner = r.self], ret |-> r.ret]

Iter_next_back(self) ==
    LET r == Item_next_back(self.inner) IN [self |-> [self EXCEPT !.inner = r.self], ret |-> r.ret]

IterMut_next(self) ==
    LET r == Item_next(self.inner) IN [self |-> [self EXCEPT !.inner = r.self], ret |-> r.ret]

IterMut_next_back(self) ==
    LET r == Item_next_back(self.inner) IN [self |-> [self EXCEPT !.inner = r.self], ret |-> r.ret]

IntoIter_next(self) ==
    LET r == Item_next(self.inner) IN [self |-> [self EXCEPT !.inner = r.self], ret |-> r.ret]

IntoIter_next_back(self) ==
    LET r == Item_next_back(self.inner) IN [self |-> [self EXCEPT !.inner = r.self], ret |-> r.ret]

Iter_size_hint(self) == Item_size_hint(self.inner)

IterMut_size_hint(self) == Item_size_hint(self.inner)

IntoIter_size_hint(self) == Item_size_hint(self.inner)

\* i.next(), i.next_back() and i.size_hint() on whichever iterator i is
next_of(i) ==
    CASE i.kind = "Iter" -> Iter_next(i)
      [] i.kind = "IterMut" -> IterMut_next(i)
      [] i.kind = "IntoIter" -> IntoIter_next(i)

next_back_of(i) ==
    CASE i.kind = "Iter" -> Iter_next_back(i)
      [] i.kind = "IterMut" -> IterMut_next_back(i)
      [] i.kind = "IntoIter" -> IntoIter_next_back(i)

size_hint_of(i) ==
    CASE i.kind = "Iter" -> Iter_size_hint(i)
      [] i.kind = "IterMut" -> IterMut_size_hint(i)
      [] i.kind = "IntoIter" -> IntoIter_size_hint(i)

\* ---------------------------------------------------------- FromIterator
\* the caller's iterator I: Iterator<Option<A>> over a finite sequence
SeqIter(items) == [items |-> items, pos |-> 0]

SeqIter_next(self) ==
    IF self.pos < Len(self.items)
    THEN [self |-> [self EXCEPT !.pos = @ + 1], ret |-> Some(self.items[self.pos + 1])]
    ELSE [self |-> self, ret |-> None]

\* struct Adapter<Iter> { iter: Iter, found_none: bool }
Adapter(i) == [iter |-> i, found_none |-> FALSE]


\* mutant: the adapter forgets to record that it saw a None
Adapter_next_no_flag(self) ==
    LET r == SeqIter_next(self.iter) IN
    CASE r.ret.tag = "Some" /\ r.ret.val.tag = "Some" ->
           [self |-> [self EXCEPT !.iter = r.self], ret |-> Some(r.ret.val.val)]
      [] OTHER ->
           [self |-> [self EXCEPT !.iter = r.self], ret |-> None]

\* mutant: the adapter takes the end of the underlying iterator for a None
\* element too
Adapter_next_flags_end(self) ==
    LET r == SeqIter_next(self.iter) IN
    CASE r.ret.tag = "Some" /\ r.ret.val.tag = "Some" ->
           [self |-> [self EXCEPT !.iter = r.self], ret |-> Some(r.ret.val.val)]
      [] OTHER ->
           [self |-> [self EXCEPT !.iter = r.self, !.found_none = TRUE], ret |-> None]

Adapter_next(self) ==
    LET r == SeqIter_next(self.iter) IN
    CASE r.ret.tag = "Some" /\ r.ret.val.tag = "Some" ->
           [self |-> [self EXCEPT !.iter = r.self], ret |-> Some(r.ret.val.val)]
      [] r.ret.tag = "Some" /\ r.ret.val.tag = "None" ->
           [self |-> [self EXCEPT !.iter = r.self, !.found_none = TRUE], ret |-> None]
      [] r.ret.tag = "None" ->
           [self |-> [self EXCEPT !.iter = r.self], ret |-> None]

\* the tail of from_iter, once V's constructor has returned the container v
from_iter_result(adapter_, v_) ==
    IF adapter_.found_none THEN None ELSE Some(v_)

\* =================================================================== state
VARIABLES
    x,          \* the caller's option variable (Moved after a by-value call)
    mode,       \* "idle", "iter" (an iterator over x is alive), "collect"
    call,       \* the last method call on x: its arguments and what it returned
    it,         \* the live iterator (Iter, IterMut or IntoIter)
    log,        \* what each next()/next_back() call on `it` yielded, in order
    snap,       \* the content of x when the iterator was made
    wrote,      \* the caller wrote through a yielded &mut
    written,    \* the value last written through a &mut into x, as an option
    input,      \* the sequence handed to from_iter
    adapter,    \* from_iter's Adapter
    v,          \* the container V's constructor is building
    ctor,       \* which constructor V::from_iter is
    got_none,   \* the constructor has received None from adapter.next()
    result      \* what from_iter returned

vars == <<x, mode, call, it, log, snap, wrote, written, input, adapter, v, ctor, got_none, result>>
iterVars == <<it, log, snap, wrote, written>>
collVars == <<input, adapter, v, ctor, got_none, result>>

Moved == [tag |-> "Moved"]
NoCall == [op |-> "none"]
NoIter == [kind |-> "none"]
NoAdapter == [iter |-> SeqIter(<<>>), found_none |-> FALSE]
Pending == [tag |-> "Pending"]

Options == OptionOf(Vals)
Inputs == UNION {[1..n -> Options] : n \in 0..MaxLen}
\* V::from_iter is the caller's choice: "Vec" pulls until next() returns None
\* and then returns; "Any" stands for every other constructor, which may
\* call next() or return whenever it likes
Ctors == {"Vec", "Any"}

Live == x.tag # "Moved"
Compose(g, f) == [a \in Vals |-> g[f[a]]]

Init ==
    /\ x \in Options
    /\ mode = "idle"
    /\ call = NoCall
    /\ it = NoIter
    /\ log = <<>>
    /\ snap = None
    /\ wrote = FALSE
    /\ written = None
    /\ input = <<>>
    /\ adapter = NoAdapter
    /\ v = <<>>
    /\ ctor = "Vec"
    /\ got_none = FALSE
    /\ result = Pending

\* ----------------------------------------------------- calls on x (idle)
\* let x = Some(a) / let x = None
New(o) ==
    /\ mode = "idle"
    /\ x' = o
    /\ call' = NoCall
    /\ UNCHANGED <<mode, iterVars, collVars>>

\* the caller lets go of what the last call returned
Discard ==
    /\ mode = "idle" /\ call # NoCall
    /\ call' = NoCall
    /\ UNCHANGED <<x, mode, iterVars, collVars>>

\* x.take(), possibly again and again
Take ==
    /\ mode = "idle" /\ Live
    /\ call.op = "take" => Len(call.rets) < MaxCalls
    /\ LET r == take(x) IN
         /\ x' = r.self
         /\ call' = IF call.op = "take"
                    THEN [call EXCEPT !.rets = Append(@, r.ret)]
                    ELSE [op |-> "take", held |-> x, rets |-> <<r.ret>>]
    /\ UNCHANGED <<mode, iterVars, collVars>>

\* a by-value call: x is moved into it
CanCall == mode = "idle" /\ Live

ByValue(c) ==
    /\ CanCall
    /\ x' = Moved
    /\ call' = c
    /\ UNCHANGED <<mode, iterVars, collVars>>

Unwrap == ByValue([op |-> "unwrap", self |-> x, out |-> unwrap(x)])

Expect == CanCall /\ \E msg \in Msgs :
    ByValue([op |-> "expect", self |-> x, msg |-> msg, out |-> expect(x, msg)])

UnwrapOrElse == CanCall /\ \E f \in Suppliers(Vals) :
    LET r == unwrap_or_else(x, f) IN
    ByValue([op |-> "unwrap_or_else", self |-> x, f |-> f, ret |-> r.ret, calls |-> r.calls])

Map == CanCall /\ \E f \in Fns(Vals) :
    LET r == map(x, f) IN
    ByValue([op |-> "map", self |-> x, f |-> f, ret |-> r.ret, calls |-> r.calls])

\* x.map(f).map(g), next to x.map(|a| g(f(a)))
MapMap == CanCall /\ \E f \in Fns(Vals), g \in Fns(Vals) :
    ByValue([op |-> "map.map", self |-> x, f |-> f, g |-> g,
             ret |-> map(map(x, f).ret, g).ret,
             fused |-> map(x, Compose(g, f)).ret])

MapOrElse == CanCall /\ \E def \in Suppliers(Vals), f \in Fns(Vals) :
    LET r == map_or_else(x, def, f) IN
    ByValue([op |-> "map_or_else", self |-> x, def |-> def, f |-> f,
             ret |-> r.ret, calls |-> r.calls])

OkOrElse == CanCall /\ \E err \in Suppliers(Vals) :
    LET r == ok_or_else(x, err) IN
    ByValue([op |-> "ok_or_else", self |-> x, err |-> err, ret |-> r.ret, calls |-> r.calls])

And == CanCall /\ \E optb \in Options :
    ByValue([op |-> "and", self |-> x, optb |-> optb, ret |-> and(x, optb)])

AndThen == CanCall /\ \E f \in Fns(Options) :
    LET r == and_then(x, f) IN
    ByValue([op |-> "and_then", self |-> x, f |-> f, ret |-> r.ret, calls |-> r.calls])

Or == CanCall /\ \E optb \in Options :
    ByValue([op |-> "or", self |-> x, optb |-> optb, ret |-> or(x, optb)])

OrElse == CanCall /\ \E f \in Suppliers(Options) :
    LET r == or_else(x, f) IN
    ByValue([op |-> "or_else", self |-> x, f |-> f, ret |-> r.ret, calls |-> r.calls])

\* x == other, x.cmp(&other), other.cmp(&x), and the comparisons with a third
\* option; all of them take &self, so x stays where it is
Compare == CanCall /\ \E other \in Options, third \in Options :
    /\ call' = [op |-> "cmp", self |-> x, other |-> other, third |-> third,
                eq |-> derived_eq(x, other),
                ord |-> derived_cmp(x, other),
                rev |-> derived_cmp(other, x),
                ord_other_third |-> derived_cmp(other, third),
                ord_self_third |-> derived_cmp(x, third)]
    /\ UNCHANGED <<x, mode, iterVars, collVars>>

\* ------------------------------------------------------ iterating over x
StartIter(newx, i) ==
    /\ mode = "idle" /\ Live /\ call = NoCall
    /\ mode' = "iter"
    /\ x' = newx
    /\ it' = i
    /\ log' = <<>>
    /\ snap' = x
    /\ wrote' = FALSE
    /\ written' = None
    /\ UNCHANGED <<call, collVars>>

MakeIter == StartIter(x, iter(x))

MakeIterMut == LET r == iter_mut(x) IN StartIter(r.self, r.ret)

MakeIntoIter == StartIter(Moved, into_iter(x))

\* *r for a yielded reference r into x
Deref(r) == x.val

\* *r = a: the new content of x after a write through the reference r
store(r, a) == IF r.cell = "x" THEN [x EXCEPT !.val = a] ELSE x

\* the value the caller gets hold of through a yielded item
Seen(item) ==
    IF item.tag = "None" THEN None
    ELSE IF it.kind = "IntoIter" THEN item
    ELSE Some(Deref(item.val))

Yield(r, end) ==
    /\ it' = r.self
    /\ log' = Append(log, [end |-> end, item |-> r.ret, seen |-> Seen(r.ret),
                           hint |-> size_hint_of(it)])
    /\ UNCHANGED <<x, mode, call, snap, wrote, written, collVars>>

Next_ ==
    /\ mode = "iter" /\ Len(log) < MaxCalls
    /\ Yield(CASE it.kind = "Iter" -> Iter_next(it)
               [] it.kind = "IterMut" -> IterMut_next(it)
               [] it.kind = "IntoIter" -> IntoIter_next(it),
             "front")

NextBack ==
    /\ mode = "iter" /\ Len(log) < MaxCalls
    /\ Yield(CASE it.kind = "Iter" -> Iter_next_back(it)
               [] it.kind = "IterMut" -> IterMut_next_back(it)
               [] it.kind = "IntoIter" -> IntoIter_next_back(it),
             "back")

\* *r = a through a &mut that iter_mut().next() yielded
WriteThrough == mode = "iter" /\ \E a \in Vals, k \in 1..Len(log) :
    /\ log[k].item.tag = "Some" /\ it.kind = "IterMut" /\ log[k].item.val.mutable
    /\ x' = store(log[k].item.val, a)
    /\ wrote' = TRUE
    /\ written' = Some(a)
    /\ UNCHANGED <<mode, call, it, log, snap, collVars>>

\* the iterator and what it yielded go out of scope
DropIter ==
    /\ mode = "iter"
    /\ mode' = "idle"
    /\ it' = NoIter
    /\ log' = <<>>
    /\ snap' = None
    /\ wrote' = FALSE
    /\ written' = None
    /\ UNCHANGED <<x, call, collVars>>

\* x.as_mut(), x.as_mut_slice() or x.as_slice(): a view of x is alive
StartView(view) ==
    /\ mode = "idle" /\ Live /\ call = NoCall
    /\ mode' = "view"
    /\ it' = view
    /\ log' = <<>>
    /\ snap' = x
    /\ wrote' = FALSE
    /\ written' = None
    /\ UNCHANGED <<x, call, collVars>>

AsMut == StartView([kind |-> "as_mut", view |-> as_mut(x)])

AsMutSlice == StartView([kind |-> "as_mut_slice", view |-> as_mut_slice(x)])

AsSlice == StartView([kind |-> "as_slice", view |-> as_slice(x)])

\* *v = a through the &mut of as_mut(), or v[0] = a on the &mut [T]
WriteView == mode = "view" /\ \E a \in Vals :
    /\ \/ it.kind = "as_mut" /\ it.view.tag = "Some" /\ it.view.val.mutable
          /\ x' = store(it.view.val, a)
       \/ it.kind = "as_mut_slice" /\ Len(it.view) >= 1 /\ it.view[1].mutable
          /\ x' = store(it.view[1], a)
    /\ wrote' = TRUE
    /\ written' = Some(a)
    /\ UNCHANGED <<mode, call, it, log, snap, collVars>>

\* the view goes out of scope
DropView ==
    /\ mode = "view"
    /\ mode' = "idle"
    /\ it' = NoIter
    /\ log' = <<>>
    /\ snap' = None
    /\ wrote' = FALSE
    /\ written' = None
    /\ UNCHANGED <<x, call, collVars>>

\* ------------------------------------------- collecting into Option<V>
\* from_iter(iter): makes the adapter and enters V's constructor
FromIter == mode = "idle" /\ call = NoCall /\ \E items \in Inputs, c \in Ctors :
    /\ mode' = "collect"
    /\ input' = items
    /\ adapter' = Adapter(SeqIter(items))
    /\ v' = <<>>
    /\ ctor' = c
    /\ got_none' = FALSE
    /\ result' = Pending
    /\ UNCHANGED <<x, call, iterVars>>

\* V's constructor calls adapter.next() and keeps the item it gets
CtorNext ==
    /\ mode = "collect" /\ result = Pending
    /\ ctor = "Vec" => ~got_none
    /\ LET r == Adapter_next(adapter) IN
         /\ adapter' = r.self
         /\ v' = IF r.ret.tag = "Some" THEN Append(v, r.ret.val) ELSE v
         /\ got_none' = (got_none \/ r.ret.tag = "None")
    /\ UNCHANGED <<x, mode, call, iterVars, input, ctor, result>>

\* V's constructor returns; from_iter looks at found_none and returns
CtorReturn ==
    /\ mode = "collect" /\ result = Pending
    /\ ctor = "Vec" => got_none
    /\ result' = from_iter_result(adapter, v)
    /\ UNCHANGED <<x, mode, call, iterVars, input, adapter, v, ctor, got_none>>

\* the caller is done with the result
Finish ==
    /\ mode = "collect" /\ result # Pending
    /\ mode' = "idle"
    /\ input' = <<>>
    /\ adapter' = NoAdapter
    /\ v' = <<>>
    /\ ctor' = "Vec"
    /\ got_none' = FALSE
    /\ result' = Pending
    /\ UNCHANGED <<x, call, iterVars>>

Next ==
    \/ \E o \in Options : New(o)
    \/ Discard
    \/ Take
    \/ Unwrap
    \/ Expect
    \/ UnwrapOrElse
    \/ Map
    \/ MapMap
    \/ MapOrElse
    \/ OkOrElse
    \/ And
    \/ AndThen
    \/ Or
    \/ OrElse
    \/ Compare
    \/ MakeIter
    \/ MakeIterMut
    \/ MakeIntoIter
    \/ Next_
    \/ NextBack
    \/ WriteThrough
    \/ DropIter
    \/ AsMut
    \/ AsMutSlice
    \/ AsSlice
    \/ WriteView
    \/ DropView
    \/ FromIter
    \/ CtorNext
    \/ CtorReturn
    \/ Finish

Spec == Init /\ [][Next]_vars

\* ================================================================= claims
AllSome(items) == \A i \in 1..Len(items) : items[i].tag = "Some"
Payloads(items) == [i \in 1..Len(items) |-> items[i].val]
Collected(items) == IF AllSome(items) THEN Some(Payloads(items)) ELSE None
SomeFn == [a \in Vals |-> Some(a)]

\* C1: take() returns the value the option held before the call and leaves
\* the option None: in a run of successive take() calls on x the first
\* returns what x held, every later one returns None, and x is None after
\* each of them.
C1_TakeReturnsPriorLeavesNone ==
    call.op = "take" =>
        /\ x = None
        /\ \A i \in 1..Len(call.rets) :
               call.rets[i] = IF i = 1 THEN call.held ELSE None

C1_Witness ==
    /\ call.op = "take"
    /\ call.held.tag = "Some"
    /\ Len(call.rets) >= 3

\* C2: while a sequence of options is collected, no element of the sequence
\* after its first None is ever pulled, whatever the sequence and whatever
\* the container constructor: the position of the underlying iterator never
\* passes a None element.
C2_NothingPulledAfterFirstNone ==
    \A i \in 1..Len(input) :
        input[i].tag = "None" => adapter.iter.pos <= i

C4_YieldsOnceThenNone ==
    mode = "iter" =>
        \A i \in 1..Len(log) :
            /\ log[i].seen = (IF i = 1 THEN snap ELSE None)
            /\ log[i].item.tag = log[i].seen.tag

C4_Witness ==
    /\ mode = "iter" /\ snap.tag = "Some"
    /\ Len(log) >= 3
    /\ log[1].end = "back" /\ log[2].end = "front" /\ log[3].end = "back"
    /\ log[1].seen = snap

\* C5: next()/next_back() on an iterator made by iter() or iter_mut() leave
\* the option itself as it was when the iterator was made, unless the caller
\* wrote through a yielded mutable reference.
C5_IterLeavesOptionAlone ==
    (mode = "iter" /\ it.kind \in {"Iter", "IterMut"} /\ ~wrote) => x = snap

C5_Witness ==
    /\ mode = "iter" /\ it.kind = "IterMut" /\ ~wrote
    /\ Len(log) >= 2 /\ log[1].item.tag = "Some"
    /\ it.inner.opt = None
    /\ x = snap /\ x.tag = "Some"

\* C6: unwrap() and expect(msg) return the payload on Some; on None they
\* panic, unwrap with its fixed message and expect with the caller's msg.
C6_UnwrapExpect ==
    /\ call.op = "unwrap" =>
         call.out = (IF call.self.tag = "Some" THEN Return(call.self.val)
                     ELSE Panic(UnwrapMsg))
    /\ call.op = "expect" =>
         call.out = (IF call.self.tag = "Some" THEN Return(call.self.val)
                     ELSE Panic(call.msg))

C6_Witness ==
    /\ call.op = "expect" /\ call.self = None
    /\ call.out.kind = "panic" /\ call.out.msg = call.msg /\ call.msg # UnwrapMsg

\* C7: the closures are invoked lazily and once: the supplier of
\* unwrap_or_else, or_else and ok_or_else exactly once on None and never on
\* Some; the transform of map and and_then exactly once on Some and never on
\* None; map_or_else invokes exactly one of its two closures, once.
C7_ClosuresInvokedOnceOnTheirPath ==
    /\ call.op \in {"unwrap_or_else", "or_else"} =>
         call.calls = (IF call.self.tag = "None" THEN <<"f">> ELSE <<>>)
    /\ call.op = "ok_or_else" =>
         call.calls = (IF call.self.tag = "None" THEN <<"err">> ELSE <<>>)
    /\ call.op \in {"map", "and_then"} =>
         call.calls = (IF call.self.tag = "Some" THEN <<"f">> ELSE <<>>)
    /\ call.op = "map_or_else" =>
         call.calls = (IF call.self.tag = "Some" THEN <<"f">> ELSE <<"def">>)

C7_Witness ==
    /\ call.op = "map_or_else" /\ call.self.tag = "Some"
    /\ call.calls = <<"f">>
    /\ call.ret = call.f[call.self.val] /\ call.ret # call.def[Unit]

\* C8: map obeys the functor composition law: o.map(f).map(g) equals
\* o.map(|a| g(f(a))), which is None for None and Some(g(f(a))) for Some(a).
C8_MapComposition ==
    call.op = "map.map" =>
        /\ call.ret = call.fused
        /\ call.ret = (IF call.self.tag = "None" THEN None
                       ELSE Some(call.g[call.f[call.self.val]]))

C8_Witness ==
    /\ call.op = "map.map" /\ call.self.tag = "Some"
    /\ call.f[call.self.val] # call.self.val
    /\ call.g[call.f[call.self.val]] # call.f[call.self.val]
    /\ call.ret = Some(call.g[call.f[call.self.val]])

\* C9: and_then is a bind: None.and_then(f) is None, Some(a).and_then(f) is
\* f(a), and o.and_then(Some) is o.
C9_AndThenBind ==
    call.op = "and_then" =>
        /\ call.ret = (IF call.self.tag = "None" THEN None
                       ELSE call.f[call.self.val])
        /\ call.f = SomeFn => call.ret = call.self

C9_Witness ==
    /\ call.op = "and_then" /\ call.self.tag = "Some"
    /\ call.f[call.self.val].tag = "Some"
    /\ call.f[call.self.val] # call.self
    /\ call.ret = call.f[call.self.val]

\* C10: Some(a).or(y) is Some(a) and None.or(y) is y; a.and(b) is None when
\* a is None and b, unchanged, when a is Some.
C10_OrAnd ==
    /\ call.op = "or" =>
         call.ret = (IF call.self.tag = "Some" THEN call.self ELSE call.optb)
    /\ call.op = "and" =>
         call.ret = (IF call.self.tag = "None" THEN None ELSE call.optb)

C10_Witness ==
    /\ call.op = "and" /\ call.self.tag = "Some"
    /\ call.optb.tag = "Some" /\ call.optb # call.self
    /\ call.ret = call.optb

\* C11: equality and ordering on options are structural: None equals only
\* None, None is strictly less than every Some(a), and Some(a) against
\* Some(b) compares as a against b; the order is total (the two directions
\* mirror each other, Equal goes with ==, and <= is transitive).
C11_StructuralEqOrd ==
    call.op = "cmp" =>
        LET a == call.self
            b == call.other
            LeEq == {"Less", "Equal"}
        IN
        /\ a = None => (call.eq <=> b = None)
        /\ b = None => (call.eq <=> a = None)
        /\ (a = None /\ b.tag = "Some") => call.ord = "Less"
        /\ (a.tag = "Some" /\ b = None) => call.ord = "Greater"
        /\ (a.tag = "Some" /\ b.tag = "Some") =>
             /\ call.eq <=> (a.val = b.val)
             /\ a.val < b.val => call.ord = "Less"
             /\ a.val = b.val => call.ord = "Equal"
             /\ a.val > b.val => call.ord = "Greater"
        /\ call.eq <=> (call.ord = "Equal")
        /\ call.rev = (CASE call.ord = "Less" -> "Greater"
                         [] call.ord = "Equal" -> "Equal"
                         [] call.ord = "Greater" -> "Less")
        /\ (call.ord \in LeEq /\ call.ord_other_third \in LeEq) =>
             call.ord_self_third \in LeEq

C11_Witness ==
    /\ call.op = "cmp"
    /\ call.self.tag = "Some" /\ call.other.tag = "Some" /\ call.third = None
    /\ call.self.val < call.other.val
    /\ call.ord = "Less" /\ ~call.eq
    /\ call.ord_other_third = "Greater"

\* C12: mutable views write through without changing the variant:
\* as_mut_slice() and as_slice() have length 1 on Some and 0 on None; after
\* a value is written through the reference of as_mut(), through element 0
\* of as_mut_slice() or through the item iter_mut() yielded, the option is
\* Some of that value; on None nothing can be written and it stays None.
C12_MutableViewsWriteThrough ==
    mode \in {"iter", "view"} =>
        /\ it.kind \in {"as_mut_slice", "as_slice"} =>
             Len(it.view) = (IF snap.tag = "Some" THEN 1 ELSE 0)
        /\ it.kind \in {"as_mut", "as_mut_slice", "IterMut"} =>
             /\ written.tag = "Some" => x = Some(written.val)
             /\ x.tag = snap.tag
             /\ snap = None => (x = None /\ written = None)

C12_Witness ==
    /\ mode = "view" /\ it.kind = "as_mut_slice"
    /\ snap.tag = "Some" /\ written.tag = "Some"
    /\ written # snap
    /\ x = written

\* the number of items the next `calls` calls at one end of i would yield
RECURSIVE StillYields(_, _, _)
StillYields(i, end, calls) ==
    IF calls = 0 THEN 0
    ELSE LET r == IF end = "front" THEN next_of(i) ELSE next_back_of(i) IN
         (IF r.ret.tag = "Some" THEN 1 ELSE 0) + StillYields(r.self, end, calls - 1)

\* C13: in every state of an option iterator size_hint() is exact, namely
\* (n, Some(n)) with n the number of items the remaining next()/next_back()
\* calls still yield: 1 before the first extraction from a Some, 0 after it
\* or for a None; and n never increases from one call to the next.
C13_SizeHintExact ==
    mode = "iter" =>
        LET h == size_hint_of(it)
            n == h[1]
        IN
        /\ h = <<n, Some(n)>>
        /\ n = StillYields(it, "front", MaxCalls)
        /\ n = StillYields(it, "back", MaxCalls)
        /\ n = (IF Len(log) = 0 /\ snap.tag = "Some" THEN 1 ELSE 0)
        /\ \A k \in 1..Len(log) :
             /\ log[k].hint = <<log[k].hint[1], Some(log[k].hint[1])>>
             /\ log[k].hint[1] = (IF log[k].item.tag = "Some" THEN 1 ELSE 0)
             /\ n <= log[k].hint[1]
             /\ \A j \in 1..k : log[k].hint[1] <= log[j].hint[1]

C13_Witness ==
    /\ mode = "iter" /\ it.kind = "IntoIter"
    /\ Len(log) >= 2
    /\ log[1].hint = <<1, Some(1)>> /\ log[1].item.tag = "Some"
    /\ log[2].hint = <<0, Some(0)>>
    /\ size_hint_of(it) = <<0, Some(0)>>

\* the elements of the input pulled so far
Pulled == 1..adapter.iter.pos

====
